---- MODULE Spec2Model ----
(***************************************************************************)
(* Habit Tracker (src/src/Code.js): the daily-row guard, the reminder and  *)
(* weekly-summary guards, and the streak calculations, as a state machine. *)
(*                                                                         *)
(* Every entry point is an invocation run by one of the executions in      *)
(* Procs.  An invocation advances one Apps Script service call at a time   *)
(* (LockService, SpreadsheetApp, PropertiesService, MailApp), so that      *)
(* overlapping invocations interleave exactly where the services allow.    *)
(***************************************************************************)
EXTENDS Integers, Sequences, FiniteSets, TLC

\* ------------------------------------------------------------------------
\* Bounds
\* ------------------------------------------------------------------------
NumProcs == 2
\* number of overlapping executions
MaxDay == 2
\* calendar days the clock runs through: 0 .. MaxDay-1
MaxCount == 2
\* the send counters saturate here
MaxLen == 3
\* longest drawn log of the aggregation specification
AggDays == 3
\* calendar days the drawn log of the aggregation specification spans
StreakLen == 3
\* longest log of consecutive days given to the streak functions
MonthSlack == 1
\* days modelled before the 30-day window and after the current day
WeekRows == 2
\* most rows of a sheet given to the week's summary
HistoryLen == 2
\* most days recorded before the day on which a row is appended

Procs == 1..NumProcs
Days == 0..(MaxDay - 1)
MaxClock == 2 * MaxDay - 1
\* an instant is 2 * day + h: h = 0 is 00:00 of the day, h = 1 is 23:59
NoDate == -1
\* null: PropertiesService.getProperty of a key never set; an unset local
NoBody == [exerciseStreak |-> -1, noAlcoholStreak |-> -1]
\* no reminder is being composed
Blank == [exerciseStreak |-> -1, noAlcoholStreak |-> -1, longestExercise |-> -1]
\* a Dashboard sheet without content

EXERCISE_TYPES == {"Gym", "Rest Day"}
\* the values of the list the model enters into a row, one exercise and the rest day
EmptyCell == -1
\* an empty numeric cell ("" in getValues)
TextCell == -2
\* a numeric cell that holds text
MonthWindow == 30
\* thirtyDaysAgo.setDate(now.getDate() - 30)
BeerValues == {EmptyCell, 0, 1}

VARIABLES
    clock,              \* new Date(): the instant now
    sheetExists,        \* the "Tracking" sheet is in the spreadsheet
    rows,               \* the data rows of the Tracking sheet, row 2 first
    lock,               \* LockService script lock: its holder, 0 when free
    lastReminderDate,   \* script property "lastReminderDate", NoDate when unset
    dashboard,          \* the values on the Dashboard sheet
    pc,                 \* where each execution stands
    kind,               \* the entry point each execution runs
    today,              \* local `today` of addTodayRow / sendDailyReminder
    newRow,             \* local `newRow` of addTodayRow
    mailBody,           \* locals `exerciseStreak`, `noAlcoholStreak` of sendDailyReminder
    reminderSent,       \* per day: reminder mails MailApp delivered (saturating)
    weeklySent          \* weekly summary mails delivered on the day of the clock (saturating)

vars == <<clock, sheetExists, rows, lock, lastReminderDate, dashboard, pc, kind,
          today, newRow, mailBody, reminderSent, weeklySent>>

\* ------------------------------------------------------------------------
\* Pure helpers
\* ------------------------------------------------------------------------
Min(a, b) == IF a < b THEN a ELSE b
Max(a, b) == IF a > b THEN a ELSE b

\* Utilities.formatDate(date, tz, "yyyy-MM-dd"): the calendar day of an instant
formatDate(t) == t \div 2

\* a faulty variant: the cell's instant is compared with `today` without formatting it
HasRowForUnformatted(data, day) == \E i \in 1..Len(data) : data[i].date = day

\* the loop of addTodayRow: some row formats to `day`
HasRowFor(data, day) == \E i \in 1..Len(data) : formatDate(data[i].date) = day

\* the test of the streak loops: a non-empty exercise type other than "Rest Day"
\* a faulty variant: any non-empty type counts, "Rest Day" included
IsExerciseAnyType(exerciseType) == exerciseType # ""

IsExercise(exerciseType) == exerciseType # "" /\ exerciseType # "Rest Day"

\* the test of calculateNoAlcoholStreak / getMonthStats_
IsNoAlcohol(beerCount) == beerCount = 0 \/ beerCount = EmptyCell

RECURSIVE ExerciseWalk(_, _)
\* the backward loop of calculateExerciseStreak from index i
ExerciseWalk(data, i) ==
    IF i = 0 THEN 0
    ELSE IF IsExercise(data[i].ex) THEN 1 + ExerciseWalk(data, i - 1)
    ELSE 0

calculateExerciseStreak(data) == ExerciseWalk(data, Len(data))

RECURSIVE NoAlcoholWalk(_, _)
NoAlcoholWalk(data, i) ==
    IF i = 0 THEN 0
    ELSE IF IsNoAlcohol(data[i].beer) THEN 1 + NoAlcoholWalk(data, i - 1)
    ELSE 0

calculateNoAlcoholStreak(data) == NoAlcoholWalk(data, Len(data))

RECURSIVE LongestWalkForgetful(_, _, _, _)
\* a faulty variant: a rest day resets the maximum together with the running count
LongestWalkForgetful(data, i, current, longest) ==
    IF i > Len(data) THEN longest
    ELSE IF data[i].ex # "" /\ data[i].ex # "Rest Day"
         THEN LongestWalkForgetful(data, i + 1, current + 1, Max(longest, current + 1))
         ELSE LongestWalkForgetful(data, i + 1, 0, 0)

RECURSIVE LongestWalk(_, _, _, _)
\* the forward loop of calculateLongestExerciseStreak from index i
LongestWalk(data, i, current, longest) ==
    IF i > Len(data) THEN longest
    ELSE IF IsExercise(data[i].ex)
         THEN LongestWalk(data, i + 1, current + 1, Max(longest, current + 1))
         ELSE LongestWalk(data, i + 1, 0, longest)

calculateLongestExerciseStreak(data) == LongestWalk(data, 1, 0, 0)

\* now.getDay(): 0 is Sunday; day 0 of the model is a Monday
getDay(t) == (formatDate(t) + 1) % 7

\* normalizeDate_: the instant with its time set to 00:00
normalizeDate(t) == 2 * formatDate(t)

\* `typeof beers === "number"`
IsNumber(cell) == cell >= 0

\* a faulty variant: Sunday is not special-cased, its offset is dayOfWeek - 1 = -1
MondayOfNoSundayCase(now) == 2 * (formatDate(now) - (getDay(now) - 1))

\* the Monday 00:00 getWeekStats_ computes from now
MondayOf(now) ==
    LET dayOfWeek == getDay(now)
        mondayOffset == IF dayOfWeek = 0 THEN 6 ELSE dayOfWeek - 1
    IN  2 * (formatDate(now) - mondayOffset)

RECURSIVE WeekLoop(_, _, _, _)
\* the loop of getWeekStats_ from row i on; Duration and Weight are not modelled
WeekLoop(data, i, monday, acc) ==
    IF i > Len(data) THEN acc
    ELSE IF normalizeDate(data[i].date) < monday THEN WeekLoop(data, i + 1, monday, acc)
    ELSE WeekLoop(data, i + 1, monday,
           [exerciseDays |-> acc.exerciseDays + (IF IsExercise(data[i].ex) THEN 1 ELSE 0),
            totalBeers   |-> acc.totalBeers + (IF IsNumber(data[i].beer) THEN data[i].beer ELSE 0)])

getWeekStats(data, now) ==
    WeekLoop(data, 1, MondayOf(now), [exerciseDays |-> 0, totalBeers |-> 0])

\* a faulty variant: the percentage is cut to an integer, not rounded
BeerFreeRateTruncated(noAlcoholDays, totalDays) ==
    IF totalDays > 0 THEN (100 * noAlcoholDays) \div totalDays ELSE 0

\* ((noAlcoholDays / totalDays) * 100).toFixed(0), "0" when there are no days;
\* below 40 days the double rounds as the exact quotient does, halves upward
BeerFreeRate(noAlcoholDays, totalDays) ==
    IF totalDays > 0 THEN (200 * noAlcoholDays + totalDays) \div (2 * totalDays) ELSE 0

RECURSIVE MonthLoop(_, _, _, _)
\* the loop of getMonthStats_ from row i on
MonthLoop(data, i, thirtyDaysAgo, acc) ==
    IF i > Len(data) THEN acc
    ELSE IF normalizeDate(data[i].date) < thirtyDaysAgo
         THEN MonthLoop(data, i + 1, thirtyDaysAgo, acc)
    ELSE MonthLoop(data, i + 1, thirtyDaysAgo,
           [totalDays     |-> acc.totalDays + 1,
            exerciseDays  |-> acc.exerciseDays + (IF IsExercise(data[i].ex) THEN 1 ELSE 0),
            noAlcoholDays |-> acc.noAlcoholDays + (IF IsNoAlcohol(data[i].beer) THEN 1 ELSE 0)])

getMonthStats(data, now) ==
    LET thirtyDaysAgo == 2 * (formatDate(now) - MonthWindow)
        acc == MonthLoop(data, 1, thirtyDaysAgo,
                         [totalDays |-> 0, exerciseDays |-> 0, noAlcoholDays |-> 0])
    IN  [exerciseDays  |-> acc.exerciseDays,
         noAlcoholDays |-> acc.noAlcoholDays,
         beerFreeRate  |-> BeerFreeRate(acc.noAlcoholDays, acc.totalDays)]

\* the values buildDashboard_ writes
buildDashboard(data, now) ==
    [exerciseStreak  |-> calculateExerciseStreak(data),
     noAlcoholStreak |-> calculateNoAlcoholStreak(data),
     longestExercise |-> calculateLongestExerciseStreak(data),
     week            |-> getWeekStats(data, now),
     month           |-> getMonthStats(data, now)]

\* the first row of today in the scan of sendDailyReminder, 0 when none
RECURSIVE FirstRowFor(_, _, _)
FirstRowFor(data, day, i) ==
    IF i > Len(data) THEN 0
    ELSE IF formatDate(data[i].date) = day THEN i
    ELSE FirstRowFor(data, day, i + 1)

\* a faulty variant: a "Rest Day" entry does not count as recorded
TodayFilledExerciseOnly(data, day) ==
    LET i == FirstRowFor(data, day, 1)
    IN  i # 0 /\ IsExercise(data[i].ex)

\* `todayFilled` of sendDailyReminder
TodayFilled(data, day) ==
    LET i == FirstRowFor(data, day, 1)
    IN  i # 0 /\ data[i].ex # ""

\* sheet.getRange(newRow, COL.DATE).setValue(new Date())
\* a faulty variant: the new row is inserted above the rows of the earlier days
SetDateCellOnTop(data, r, t) ==
    IF r = Len(data) + 1
    THEN <<[date |-> t, ex |-> "", beer |-> EmptyCell]>> \o data
    ELSE [data EXCEPT ![r].date = t]

SetDateCell(data, r, t) ==
    IF r = Len(data) + 1
    THEN Append(data, [date |-> t, ex |-> "", beer |-> EmptyCell])
    ELSE [data EXCEPT ![r].date = t]

\* ------------------------------------------------------------------------
\* Initial state
\* ------------------------------------------------------------------------
Quiet ==
    /\ lock = 0
    /\ lastReminderDate = NoDate
    /\ dashboard = Blank
    /\ pc = [p \in Procs |-> "idle"]
    /\ kind = [p \in Procs |-> "none"]
    /\ today = [p \in Procs |-> NoDate]
    /\ newRow = [p \in Procs |-> 0]
    /\ mailBody = [p \in Procs |-> NoBody]
    /\ reminderSent = [d \in Days |-> 0]
    /\ weeklySent = 0

\* a fresh deployment: the script is bound to a spreadsheet that may or may
\* not have been initialized
Init ==
    /\ clock = 0
    /\ sheetExists \in BOOLEAN
    /\ rows = <<>>
    /\ Quiet

\* ------------------------------------------------------------------------
\* Leaving an entry point
\* ------------------------------------------------------------------------
\* a faulty variant: the lock is released on the normal return only
FinallyLeaksOnThrow(p, label) ==
    /\ lock' = IF lock = p /\ label = "ret_ok" THEN 0 ELSE lock
    /\ pc' = [pc EXCEPT ![p] = label]
    /\ kind' = [kind EXCEPT ![p] = "none"]
    /\ today' = [today EXCEPT ![p] = NoDate]
    /\ newRow' = [newRow EXCEPT ![p] = 0]
    /\ mailBody' = [mailBody EXCEPT ![p] = NoBody]

\* `finally { lock.releaseLock(); }` of the guarded entry points, then the
\* return (ret_ok) or the rethrow (ret_err: missing sheet, ret_mail: MailApp);
\* an entry point without a lock just returns or throws.  The execution is
\* over and its locals are gone.
Finally(p, label) ==
    /\ lock' = IF lock = p THEN 0 ELSE lock
    /\ pc' = [pc EXCEPT ![p] = label]
    /\ kind' = [kind EXCEPT ![p] = "none"]
    /\ today' = [today EXCEPT ![p] = NoDate]
    /\ newRow' = [newRow EXCEPT ![p] = 0]
    /\ mailBody' = [mailBody EXCEPT ![p] = NoBody]

Goto(p, label) == pc' = [pc EXCEPT ![p] = label]

Guarded(k) == k \in {"daily", "reminder", "weekly"}

\* ------------------------------------------------------------------------
\* Environment: the clock and the user typing into the sheet
\* ------------------------------------------------------------------------
Tick ==
    /\ clock < MaxClock
    /\ clock' = clock + 1
    /\ weeklySent' = IF formatDate(clock + 1) = formatDate(clock) THEN weeklySent ELSE 0
    /\ UNCHANGED <<sheetExists, rows, lock, lastReminderDate, dashboard, pc, kind,
                   today, newRow, mailBody, reminderSent>>

\* the user picks an exercise type from the validated list for an empty cell
UserEdit ==
    /\ sheetExists
    /\ \E i \in 1..Len(rows), e \in EXERCISE_TYPES :
          /\ rows[i].ex = ""
          /\ rows' = [rows EXCEPT ![i].ex = e]
    /\ UNCHANGED <<clock, sheetExists, lock, lastReminderDate, dashboard, pc, kind,
                   today, newRow, mailBody, reminderSent, weeklySent>>

\* ------------------------------------------------------------------------
\* Starting and ending an execution
\* ------------------------------------------------------------------------
\* an execution that has not begun or has ended can run the next invocation
Startable == {"idle", "ret_ok", "ret_busy", "ret_err", "ret_mail"}

\* where the body of each entry point begins
Body(k) == CASE k = "daily" -> "add_scan"
             [] k = "menu" -> "add_scan"
             [] k = "reminder" -> "r_check"
             [] k = "weekly" -> "w_send"
             [] k = "init" -> "init_sheet"
             [] OTHER -> "dash"

\* an entry point without a lock begins
Start(p, k) ==
    /\ pc[p] \in Startable
    /\ kind' = [kind EXCEPT ![p] = k]
    /\ Goto(p, Body(k))
    /\ UNCHANGED <<clock, sheetExists, rows, lock, lastReminderDate, dashboard,
                   today, newRow, mailBody, reminderSent, weeklySent>>

\* a guarded entry point begins and lock.tryLock(10000) returns true
TryLockOk(p, k) ==
    /\ pc[p] \in Startable
    /\ lock = 0
    /\ lock' = p
    /\ kind' = [kind EXCEPT ![p] = k]
    /\ Goto(p, Body(k))
    /\ UNCHANGED <<clock, sheetExists, rows, lastReminderDate, dashboard,
                   today, newRow, mailBody, reminderSent, weeklySent>>

\* a faulty variant: the result of tryLock is ignored and the body runs without the lock
TryLockTimeoutIgnored(p, k) ==
    /\ pc[p] \in Startable
    /\ lock # 0
    /\ Guarded(k)
    /\ kind' = [kind EXCEPT ![p] = k]
    /\ Goto(p, Body(k))
    /\ UNCHANGED <<clock, sheetExists, rows, lock, lastReminderDate, dashboard,
                   today, newRow, mailBody, reminderSent, weeklySent>>

\* a guarded entry point begins and lock.tryLock(10000) returns false, another
\* execution holding the lock for the whole wait: `if (!lock.tryLock(10000)) return;`
TryLockTimeout(p, k) ==
    /\ pc[p] \in Startable
    /\ lock # 0
    /\ Guarded(k)
    /\ Goto(p, "ret_busy")
    /\ UNCHANGED <<clock, sheetExists, rows, lock, lastReminderDate, dashboard, kind,
                   today, newRow, mailBody, reminderSent, weeklySent>>

\* the time trigger of setupTriggers fires dailyAutoAddRow
DailyAutoAddRow(p) == TryLockOk(p, "daily") \/ TryLockTimeout(p, "daily")
\* the time trigger fires sendDailyReminder
SendDailyReminder(p) == TryLockOk(p, "reminder") \/ TryLockTimeout(p, "reminder")
\* the time trigger fires sendWeeklySummary
SendWeeklySummary(p) == TryLockOk(p, "weekly") \/ TryLockTimeout(p, "weekly")
\* menu item "Add Today's Row": addTodayRow without a lock
MenuAddTodayRow(p) == Start(p, "menu")
\* menu item "Initialize Sheet"
InitializeSheet(p) == Start(p, "init")
\* menu item "Update Dashboard"
MenuUpdateDashboard(p) == Start(p, "dash")

\* ------------------------------------------------------------------------
\* addTodayRow
\* ------------------------------------------------------------------------
\* getTrackingSheet_(), today = formatDate(new Date()), getValues() and the
\* scan for a row of today
AddScan(p) ==
    /\ pc[p] = "add_scan"
    /\ IF ~sheetExists THEN Finally(p, "ret_err")
       ELSE IF HasRowFor(rows, formatDate(clock)) THEN Finally(p, "ret_ok")
       ELSE /\ today' = [today EXCEPT ![p] = formatDate(clock)]
            /\ Goto(p, "add_lastrow")
            /\ UNCHANGED <<lock, kind, newRow, mailBody>>
    /\ UNCHANGED <<clock, sheetExists, rows, lastReminderDate, dashboard,
                   reminderSent, weeklySent>>

\* const newRow = sheet.getLastRow() + 1
AddLastRow(p) ==
    /\ pc[p] = "add_lastrow"
    /\ newRow' = [newRow EXCEPT ![p] = Len(rows) + 1]
    /\ Goto(p, "add_set")
    /\ UNCHANGED <<clock, sheetExists, rows, lock, lastReminderDate, dashboard, kind,
                   today, mailBody, reminderSent, weeklySent>>

\* sheet.getRange(newRow, COL.DATE).setValue(new Date())
AddSetValue(p) ==
    /\ pc[p] = "add_set"
    /\ rows' = SetDateCell(rows, newRow[p], clock)
    /\ Finally(p, "ret_ok")
    /\ UNCHANGED <<clock, sheetExists, lastReminderDate, dashboard,
                   reminderSent, weeklySent>>

\* ------------------------------------------------------------------------
\* initializeSheet and updateDashboard
\* ------------------------------------------------------------------------
\* ss.insertSheet("Tracking") when missing, the header and the formats
InitSheet(p) ==
    /\ pc[p] = "init_sheet"
    /\ sheetExists' = TRUE
    /\ Goto(p, "init_dash")
    /\ UNCHANGED <<clock, rows, lock, lastReminderDate, dashboard, kind,
                   today, newRow, mailBody, reminderSent, weeklySent>>

\* buildDashboard_(dashboard), then on to addTodayRow()
InitDashboard(p) ==
    /\ pc[p] = "init_dash"
    /\ dashboard' = buildDashboard(rows, clock)
    /\ Goto(p, "add_scan")
    /\ UNCHANGED <<clock, sheetExists, rows, lock, lastReminderDate, kind,
                   today, newRow, mailBody, reminderSent, weeklySent>>

\* updateDashboard(): dashboard.clear(), then buildDashboard_, whose
\* getTrackingData_() throws when the Tracking sheet is missing
UpdateDashboard(p) ==
    /\ pc[p] \in {"dash", "w_dash"}
    /\ IF sheetExists
       THEN /\ dashboard' = buildDashboard(rows, clock)
            /\ Finally(p, "ret_ok")
       ELSE /\ dashboard' = Blank
            /\ Finally(p, "ret_err")
    /\ UNCHANGED <<clock, sheetExists, rows, lastReminderDate, reminderSent, weeklySent>>

\* ------------------------------------------------------------------------
\* sendDailyReminder
\* ------------------------------------------------------------------------
\* today = formatDate(new Date()); if (lastReminder === today) return;
\* getTrackingSheet_(), getValues(), the scan; if (todayFilled) return;
ReminderCheck(p) ==
    /\ pc[p] = "r_check"
    /\ IF lastReminderDate = formatDate(clock) THEN Finally(p, "ret_ok")
       ELSE IF ~sheetExists THEN Finally(p, "ret_err")
       ELSE IF TodayFilled(rows, formatDate(clock)) THEN Finally(p, "ret_ok")
       ELSE /\ today' = [today EXCEPT ![p] = formatDate(clock)]
            /\ mailBody' = [mailBody EXCEPT ![p] =
                               [exerciseStreak  |-> calculateExerciseStreak(rows),
                                noAlcoholStreak |-> calculateNoAlcoholStreak(rows)]]
            /\ Goto(p, "r_send")
            /\ UNCHANGED <<lock, kind, newRow>>
    /\ UNCHANGED <<clock, sheetExists, rows, lastReminderDate, dashboard,
                   reminderSent, weeklySent>>

\* MailApp.sendEmail(...) returns
ReminderSendOk(p) ==
    /\ pc[p] = "r_send"
    /\ reminderSent' = [reminderSent EXCEPT
                          ![today[p]] = Min(MaxCount, reminderSent[today[p]] + 1)]
    /\ Goto(p, "r_mark")
    /\ UNCHANGED <<clock, sheetExists, rows, lock, lastReminderDate, dashboard, kind,
                   today, newRow, mailBody, weeklySent>>

\* a faulty variant: the failure is caught and the day is marked as reminded
ReminderSendFailMarked(p) ==
    /\ pc[p] = "r_send"
    /\ Goto(p, "r_mark")
    /\ UNCHANGED <<clock, sheetExists, rows, lock, lastReminderDate, dashboard, kind,
                   today, newRow, mailBody, reminderSent, weeklySent>>

\* a faulty variant: the failure is caught and the entry point returns normally
ReminderSendFailSwallowed(p) ==
    /\ pc[p] = "r_send"
    /\ Finally(p, "ret_ok")
    /\ UNCHANGED <<clock, sheetExists, rows, lastReminderDate, dashboard,
                   reminderSent, weeklySent>>

\* MailApp.sendEmail(...) throws
ReminderSendFail(p) ==
    /\ pc[p] = "r_send"
    /\ Finally(p, "ret_mail")
    /\ UNCHANGED <<clock, sheetExists, rows, lastReminderDate, dashboard,
                   reminderSent, weeklySent>>

\* a faulty variant: the property is never written
ReminderMarkForgotten(p) ==
    /\ pc[p] = "r_mark"
    /\ Finally(p, "ret_ok")
    /\ UNCHANGED <<clock, sheetExists, rows, lastReminderDate, dashboard,
                   reminderSent, weeklySent>>

\* props.setProperty("lastReminderDate", today)
ReminderMark(p) ==
    /\ pc[p] = "r_mark"
    /\ lastReminderDate' = today[p]
    /\ Finally(p, "ret_ok")
    /\ UNCHANGED <<clock, sheetExists, rows, dashboard, reminderSent, weeklySent>>

\* ------------------------------------------------------------------------
\* sendWeeklySummary
\* ------------------------------------------------------------------------
\* getWeekStats_() throws: getTrackingData_() finds no Tracking sheet
WeeklyNoSheet(p) ==
    /\ pc[p] = "w_send"
    /\ ~sheetExists
    /\ Finally(p, "ret_err")
    /\ UNCHANGED <<clock, sheetExists, rows, lastReminderDate, dashboard,
                   reminderSent, weeklySent>>

\* the statistics are read and MailApp.sendEmail(...) returns
WeeklySendOk(p) ==
    /\ pc[p] = "w_send"
    /\ sheetExists
    /\ weeklySent' = Min(MaxCount, weeklySent + 1)
    /\ Goto(p, "w_dash")
    /\ UNCHANGED <<clock, sheetExists, rows, lock, lastReminderDate, dashboard, kind,
                   today, newRow, mailBody, reminderSent>>

\* the statistics are read and MailApp.sendEmail(...) throws
WeeklySendFail(p) ==
    /\ pc[p] = "w_send"
    /\ sheetExists
    /\ Finally(p, "ret_mail")
    /\ UNCHANGED <<clock, sheetExists, rows, lastReminderDate, dashboard,
                   reminderSent, weeklySent>>

\* ------------------------------------------------------------------------
\* Specifications
\* ------------------------------------------------------------------------
\* everything the script and its user can do; the properties below are checked
\* under the compositions of entry points that follow it
Next ==
    \/ Tick
    \/ UserEdit
    \/ \E p \in Procs :
         \/ DailyAutoAddRow(p) \/ SendDailyReminder(p) \/ SendWeeklySummary(p)
         \/ MenuAddTodayRow(p) \/ InitializeSheet(p) \/ MenuUpdateDashboard(p)
         \/ AddScan(p) \/ AddLastRow(p) \/ AddSetValue(p)
         \/ InitSheet(p) \/ InitDashboard(p) \/ UpdateDashboard(p)
         \/ ReminderCheck(p) \/ ReminderSendOk(p) \/ ReminderSendFail(p) \/ ReminderMark(p)
         \/ WeeklyNoSheet(p) \/ WeeklySendOk(p) \/ WeeklySendFail(p)

Spec == Init /\ [][Next]_vars

\* the daily row and the reminder, with the user filling rows in
NextReminder ==
    \/ Tick
    \/ UserEdit
    \/ \E p \in Procs :
         \/ DailyAutoAddRow(p) \/ SendDailyReminder(p)
         \/ AddScan(p) \/ AddLastRow(p) \/ AddSetValue(p)
         \/ ReminderCheck(p) \/ ReminderSendOk(p) \/ ReminderSendFail(p) \/ ReminderMark(p)

SpecReminder == Init /\ [][NextReminder]_vars

\* the three time triggers while the user leaves the sheet alone
NextTriggers ==
    \/ Tick
    \/ \E p \in Procs :
         \/ DailyAutoAddRow(p) \/ SendDailyReminder(p) \/ SendWeeklySummary(p)
         \/ AddScan(p) \/ AddLastRow(p) \/ AddSetValue(p)
         \/ UpdateDashboard(p)
         \/ ReminderCheck(p) \/ ReminderSendOk(p) \/ ReminderSendFail(p) \/ ReminderMark(p)
         \/ WeeklyNoSheet(p) \/ WeeklySendOk(p) \/ WeeklySendFail(p)

SpecTriggers == Init /\ [][NextTriggers]_vars

\* the entry points that add a row: the trigger and the two menu items
NextRows ==
    \/ Tick
    \/ \E p \in Procs :
         \/ DailyAutoAddRow(p) \/ MenuAddTodayRow(p) \/ InitializeSheet(p)
         \/ AddScan(p) \/ AddLastRow(p) \/ AddSetValue(p)
         \/ InitSheet(p) \/ InitDashboard(p)

SpecRows == Init /\ [][NextRows]_vars

TypeOK ==
    /\ clock \in 0..MaxClock
    /\ sheetExists \in BOOLEAN
    /\ lock \in 0..NumProcs
    /\ lastReminderDate \in Days \cup {NoDate}
    /\ \A p \in Procs : today[p] \in Days \cup {NoDate}
    /\ \A p \in Procs : mailBody[p] = NoBody \/ mailBody[p].exerciseStreak >= 0
    /\ \A d \in Days : reminderSent[d] \in 0..MaxCount
    /\ weeklySent \in 0..MaxCount

\* ------------------------------------------------------------------------
\* The aggregations over a log the sheet may hold
\* ------------------------------------------------------------------------
AggInstants == 0..(2 * AggDays - 1)

\* rows in ascending order of date, at most one per calendar day
Ascending(data) ==
    \A i \in 1..(Len(data) - 1) : formatDate(data[i].date) < formatDate(data[i + 1].date)

Logs ==
    UNION {[1..n -> [date : AggInstants, ex : EXERCISE_TYPES \cup {""}, beer : BeerValues]] :
             n \in 0..MaxLen}

\* an initialized sheet that holds some log; now is not before its last row
InitAgg ==
    /\ sheetExists = TRUE
    /\ rows \in {data \in Logs : Ascending(data)}
    /\ clock \in {t \in AggInstants : \A i \in 1..Len(rows) : rows[i].date <= t}
    /\ Quiet

NextAgg == \E p \in Procs : MenuUpdateDashboard(p) \/ UpdateDashboard(p)

SpecAgg == InitAgg /\ [][NextAgg]_vars

\* ------------------------------------------------------------------------
\* Properties
\* ------------------------------------------------------------------------
RowsOf(data, day) == {i \in 1..Len(data) : formatDate(data[i].date) = day}

\* at most one row per calendar date
OneRowPerDate(data) == \A i, j \in 1..Len(data) :
    formatDate(data[i].date) = formatDate(data[j].date) => i = j

\* C1: when only the lock-guarded dailyAutoAddRow adds rows, however many of
\* its invocations run one after another or overlap, no date ever has two
\* rows, and whenever one of them returns normally the sheet holds exactly one
\* row dated the current day: the later invocations find the first one's row.
C1_ExactlyOneRowForTheDay ==
    /\ [](OneRowPerDate(rows))
    /\ [][\A p \in Procs :
            (kind[p] = "daily" /\ pc[p] \in {"add_scan", "add_set"} /\ pc'[p] = "ret_ok")
               => Cardinality(RowsOf(rows', formatDate(clock))) = 1]_vars

\* a later dailyAutoAddRow holds the lock and is about to scan a sheet that
\* already has the row an earlier invocation of the same day appended
C1_Witness ==
    \E p \in Procs :
       /\ kind[p] = "daily" /\ pc[p] = "add_scan" /\ lock = p
       /\ Cardinality(RowsOf(rows, formatDate(clock))) = 1
       /\ \E q \in Procs \ {p} : pc[q] \in {"ret_ok", "ret_busy"}

\* C2: under every interleaving of all the entry points that add a row, the
\* sheet holds at most one row per calendar date.
C2_AtMostOneRowPerDate == OneRowPerDate(rows)

\* C3: for every calendar day the reminder mail is delivered at most once.
C3_AtMostOneReminderPerDay == \A d \in Days : reminderSent[d] <= 1

\* an invocation holds the lock on a day whose reminder has been sent and marked
C3_Witness ==
    \E p \in Procs :
       /\ pc[p] = "r_check" /\ lock = p
       /\ lastReminderDate = formatDate(clock)
       /\ reminderSent[formatDate(clock)] = 1

\* C4: the marker names a day only after a reminder of that day was delivered;
\* while the send of a day is still pending the marker is not that day.
C4_MarkerOnlyAfterSend ==
    /\ lastReminderDate # NoDate => reminderSent[lastReminderDate] >= 1
    /\ \A p \in Procs : pc[p] = "r_send" => lastReminderDate # today[p]

\* the marker was moved on from the first day to a later one
C4_Witness == lastReminderDate > 0 /\ reminderSent[0] = 1

\* C5: a reminder send that delivers nothing ends the invocation with the mail
\* error, leaves the marker as it was and different from the day, so that the
\* next invocation of the day passes the marker test and sends again.
C5_SendFailureRetried ==
    [][\A p \in Procs :
         (pc[p] = "r_send" /\ pc'[p] # "r_send" /\ reminderSent' = reminderSent)
            => /\ pc'[p] = "ret_mail"
               /\ lastReminderDate' = lastReminderDate
               /\ lastReminderDate' # today[p]]_vars

\* on the first day one invocation has ended with the mail error and another
\* one is sending for the same day
C5_Witness ==
    \E p, q \in Procs :
       /\ formatDate(clock) = 0
       /\ pc[p] = "ret_mail"
       /\ pc[q] = "r_send" /\ today[q] = 0

\* C6: an invocation that has ended, on whichever path, does not hold the lock.
C6_LockReleasedOnEveryExit == \A p \in Procs : pc[p] \in Startable => lock # p

\* invocations have ended on the missing-sheet error, the mail error and
\* normally, and the lock is free
C6_Witness ==
    /\ lock = 0
    /\ \E p \in Procs : pc[p] \in {"ret_mail", "ret_err"}
    /\ \E p \in Procs : pc[p] = "ret_ok"

\* C7: a guarded entry point that begins while the lock stays taken returns
\* normally and leaves the sheet, the marker, the dashboard and the mail
\* counters unchanged.
C7_LockTimeoutHasNoEffect ==
    [][\A p \in Procs :
         (pc[p] \in Startable /\ lock # 0 /\ pc'[p] # pc[p]
            /\ kind'[p] \notin {"menu", "init", "dash"})
            => /\ pc'[p] = "ret_busy"
               /\ UNCHANGED <<sheetExists, rows, lastReminderDate, dashboard,
                              reminderSent, weeklySent, lock>>]_vars

\* an invocation gave up while another execution holds the lock
C7_Witness == \E p \in Procs : pc[p] = "ret_busy" /\ lock \notin {0, p}

\* C8: the weekly summary mail is delivered at most once per calendar day.
C8_AtMostOneWeeklyPerDay == weeklySent <= 1

\* C9: an invocation that holds the lock and finds the marker different from
\* today, on an initialized sheet, goes on to send exactly when no row of today
\* has a non-empty exercise type.
C9_SendsIffTodayUnfilled ==
    [][\A p \in Procs :
         (pc[p] = "r_check" /\ pc'[p] # "r_check"
            /\ sheetExists /\ lastReminderDate # formatDate(clock))
            => (pc'[p] = "r_send" <=>
                  ~ \E i \in RowsOf(rows, formatDate(clock)) : rows[i].ex # "")]_vars

\* the send is reached with no row of today, and with an empty row of today
C9_Witness ==
    \E p \in Procs :
       /\ pc[p] = "r_send"
       /\ RowsOf(rows, today[p]) = {}

\* the current streak as C10 words it: the backward walk from row i also stops
\* where the row after it is not dated the next calendar day
RECURSIVE GapWalk(_, _)
GapWalk(data, i) ==
    IF i = 0 THEN 0
    ELSE IF ~IsExercise(data[i].ex) THEN 0
    ELSE IF i < Len(data) /\ formatDate(data[i + 1].date) # formatDate(data[i].date) + 1 THEN 0
    ELSE 1 + GapWalk(data, i - 1)

\* C10: the exercise streak shown stops counting at the first non-exercise day
\* or at the first calendar day without a row.
C10_StreakStopsAtGap ==
    dashboard # Blank => dashboard.exerciseStreak = GapWalk(rows, Len(rows))

\* ------------------------------------------------------------------------
\* The aggregations over a sheet the user typed into
\* ------------------------------------------------------------------------
\* rows in any order, one per calendar day; a Beers cell may hold text
TypedLogs ==
    UNION {[1..n -> [date : AggInstants, ex : EXERCISE_TYPES \cup {""},
                     beer : BeerValues \cup {TextCell}]] : n \in 0..MaxLen}

InitTyped ==
    /\ sheetExists = TRUE
    /\ rows \in {data \in TypedLogs : OneRowPerDate(data)}
    /\ clock = 2 * AggDays - 1
    /\ Quiet

NextTyped == MenuUpdateDashboard(1) \/ UpdateDashboard(1)

SpecTyped == InitTyped /\ [][NextTyped]_vars

\* the rows of data in ascending order of date
SortByDate(data) ==
    LET n == Len(data)
        order == CHOOSE f \in [1..n -> 1..n] :
                    /\ \A i, j \in 1..n : i # j => f[i] # f[j]
                    /\ \A i \in 1..(n - 1) : data[f[i]].date <= data[f[i + 1]].date
    IN  [i \in 1..n |-> data[order[i]]]

\* C11: the three streaks shown are those of the rows taken in ascending order
\* of date, whatever the order in which the sheet stores them.
C11_StreaksIgnoreStorageOrder ==
    dashboard # Blank =>
       LET sorted == SortByDate(rows)
       IN  /\ dashboard.exerciseStreak = calculateExerciseStreak(sorted)
           /\ dashboard.noAlcoholStreak = calculateNoAlcoholStreak(sorted)
           /\ dashboard.longestExercise = calculateLongestExerciseStreak(sorted)

\* data with every Beers cell that holds text emptied
TextAsAbsent(data) ==
    [i \in 1..Len(data) |->
        IF data[i].beer = TextCell THEN [data[i] EXCEPT !.beer = EmptyCell] ELSE data[i]]

\* C15: a Beers cell that holds text counts exactly as an empty one does: in
\* the no-alcohol streak, in the month's no-alcohol days and rate, and in the
\* week's total of beers.
C15_MalformedBeerCountsAsAbsent ==
    dashboard # Blank =>
       LET asAbsent == TextAsAbsent(rows)
       IN  /\ dashboard.noAlcoholStreak = calculateNoAlcoholStreak(asAbsent)
           /\ dashboard.month = getMonthStats(asAbsent, clock)
           /\ dashboard.week.totalBeers = getWeekStats(asAbsent, clock).totalBeers

\* ------------------------------------------------------------------------
\* The streaks of a log kept in order, one row per consecutive day
\* ------------------------------------------------------------------------
\* the types a row of such a log can hold (two of EXERCISE_TYPES' activities)
StreakTypes == {"", "Gym", "Running", "Rest Day"}

\* the log with the given Exercise Type and Beers columns, for days 0, 1, 2, ...
DailyLog(e, b) == [i \in 1..Len(e) |-> [date |-> 2 * (i - 1), ex |-> e[i], beer |-> b[i]]]

\* Monday to Thursday of one week, nothing entered under Beers
ThursdayLog ==
    DailyLog(<<"Gym", "Rest Day", "Running", "Running">>,
             <<EmptyCell, EmptyCell, EmptyCell, EmptyCell>>)

\* every log of up to StreakLen days, and the four days of ThursdayLog
DailyLogs ==
    {ThursdayLog} \cup
    UNION {{DailyLog(e, b) : e \in [1..n -> StreakTypes], b \in [1..n -> BeerValues]} :
           n \in 0..StreakLen}

InitStreak ==
    /\ sheetExists = TRUE
    /\ rows \in DailyLogs
    /\ clock = 2 * Len(rows) + 1
    /\ Quiet

NextStreak == MenuUpdateDashboard(1) \/ UpdateDashboard(1)

SpecStreak == InitStreak /\ [][NextStreak]_vars

\* a day on which an activity other than rest is recorded
ExerciseDay(row) == row.ex \notin {"", "Rest Day"}
\* a day with no beer recorded or with zero beers
NoAlcoholDay(row) == row.beer \in {EmptyCell, 0}

\* length of the longest suffix of data all of whose rows satisfy Test
LongestSuffix(data, Test(_)) ==
    LET n == Len(data)
        ks == {k \in 0..n : \A i \in (n - k + 1)..n : Test(data[i])}
    IN  CHOOSE k \in ks : \A m \in ks : m <= k

\* length of the longest contiguous run of exercise days of data
LongestRun(data) ==
    LET n == Len(data)
        ls == {0} \cup {j - i + 1 : i \in 1..n, j \in 1..n}
        runs == {l \in ls : l = 0 \/ \E i \in 1..(n - l + 1) :
                                        \A m \in i..(i + l - 1) : ExerciseDay(data[m])}
    IN  CHOOSE l \in runs : \A m \in runs : m <= l

\* C12: on a log kept in date order with one row per consecutive day, the
\* current exercise streak is the longest all-exercise suffix, the no-alcohol
\* streak the longest all-no-alcohol suffix, and the longest exercise streak the
\* longest run of exercise days; so the empty log gives 0, 0, 0, one exercise
\* day gives 1, a last rest day gives 0, and Gym, Rest Day, Running, Running
\* without beers gives 2, 2 and 4.
C12_StreaksAreSuffixAndRunLengths ==
    dashboard # Blank =>
       /\ dashboard.exerciseStreak = LongestSuffix(rows, ExerciseDay)
       /\ dashboard.noAlcoholStreak = LongestSuffix(rows, NoAlcoholDay)
       /\ dashboard.longestExercise = LongestRun(rows)
       /\ rows = <<>> =>
             /\ dashboard.exerciseStreak = 0
             /\ dashboard.noAlcoholStreak = 0
             /\ dashboard.longestExercise = 0
       /\ (Len(rows) = 1 /\ ExerciseDay(rows[1])) => dashboard.exerciseStreak = 1
       /\ (rows # <<>> /\ rows[Len(rows)].ex = "Rest Day") => dashboard.exerciseStreak = 0
       /\ rows = ThursdayLog
          => /\ dashboard.exerciseStreak = 2
             /\ dashboard.longestExercise = 2
             /\ dashboard.noAlcoholStreak = 4

\* the dashboard shows the streaks of Gym, Rest Day, Running, Running
C12_Witness ==
    /\ dashboard # Blank
    /\ rows = ThursdayLog

\* data without its last row
Front(data) == SubSeq(data, 1, Len(data) - 1)

\* C17: the longest exercise streak of a log is never below that of the log
\* without its last row: a last exercise day makes it the larger of the old
\* maximum and the running streak grown by one, a last rest day or empty row
\* leaves it as it was.
C17_LongestNeverDecreasesOnAppend ==
    (dashboard # Blank /\ rows # <<>>) =>
       LET before == calculateLongestExerciseStreak(Front(rows))
           running == LongestSuffix(Front(rows), ExerciseDay)
       IN  /\ dashboard.longestExercise >= before
           /\ ExerciseDay(rows[Len(rows)]) =>
                 dashboard.longestExercise = Max(before, running + 1)
           /\ ~ExerciseDay(rows[Len(rows)]) => dashboard.longestExercise = before

\* a rest day was appended after a streak of two, and an exercise day raised
\* the maximum in another log
C17_Witness ==
    /\ dashboard # Blank
    /\ Len(rows) >= 3
    /\ ~ExerciseDay(rows[Len(rows)])
    /\ calculateLongestExerciseStreak(Front(rows)) >= 2
    /\ dashboard.longestExercise = calculateLongestExerciseStreak(Front(rows))

\* ------------------------------------------------------------------------
\* The summaries of a month of rows
\* ------------------------------------------------------------------------
\* the day on which the dashboard is updated
MonthNow == MonthWindow + MonthSlack
\* the last day a row can bear: MonthSlack days after MonthNow
MonthLastDay == MonthNow + MonthSlack

\* n rows for consecutive days from day first on: an activity on the first x
\* of them, no alcohol (0 or nothing entered) on the first a, one beer after
MonthLog(first, n, x, a) ==
    [i \in 1..n |-> [date |-> 2 * (first + i - 1),
                     ex   |-> IF i <= x THEN "Gym" ELSE "Rest Day",
                     beer |-> IF i > a THEN 1 ELSE IF i % 2 = 0 THEN 0 ELSE EmptyCell]]

MonthLogs ==
    UNION {UNION {{MonthLog(first, n, x, a) : x \in {0, n \div 2, n}, a \in 0..n} :
                  n \in 0..(MonthLastDay - first + 1)} :
           first \in 0..MonthLastDay}

InitMonth ==
    /\ sheetExists = TRUE
    /\ rows \in MonthLogs
    /\ clock \in {2 * MonthNow, 2 * MonthNow + 1}
    /\ Quiet

NextMonth == MenuUpdateDashboard(1) \/ UpdateDashboard(1)

SpecMonth == InitMonth /\ [][NextMonth]_vars

\* the rows of data dated from day from to day to, both included
RowsBetween(data, from, to) ==
    {i \in 1..Len(data) : from <= data[i].date \div 2 /\ data[i].date \div 2 <= to}

\* C13: the month's summary counts exactly the rows dated from 30 days before
\* the current day to the current day: rows before and rows after add nothing
\* to the exercise days, the no-alcohol days or the rate.
C13_MonthCountsExactlyTheWindow ==
    dashboard # Blank =>
       LET nowDay == clock \div 2
           window == RowsBetween(rows, nowDay - 30, nowDay)
           noAlcohol == {i \in window : NoAlcoholDay(rows[i])}
       IN  /\ dashboard.month.exerciseDays = Cardinality({i \in window : ExerciseDay(rows[i])})
           /\ dashboard.month.noAlcoholDays = Cardinality(noAlcohol)
           /\ dashboard.month.beerFreeRate =
                 BeerFreeRate(Cardinality(noAlcohol), Cardinality(window))

\* the number of rows dated 30 days before the current day or later
MonthTotalDays == Cardinality(RowsBetween(rows, clock \div 2 - 30, MonthLastDay))

\* C16: the beer-free rate is 0 when the month has no row, and otherwise the
\* integer nearest to 100 * noAlcoholDays / totalDays; it lies in 0..100.
C16_BeerFreeRateIsRoundedPercentage ==
    dashboard # Blank =>
       LET rate == dashboard.month.beerFreeRate
           scaled == 100 * dashboard.month.noAlcoholDays
           total == MonthTotalDays
           error == IF scaled >= rate * total THEN scaled - rate * total
                    ELSE rate * total - scaled
       IN  /\ rate \in 0..100
           /\ total = 0 => rate = 0
           /\ total > 0 => 2 * error <= total

\* 2 of 3 days without alcohol are shown as 67 %, and a month without rows as 0 %
C16_Witness ==
    /\ dashboard # Blank
    /\ MonthTotalDays = 3
    /\ dashboard.month.noAlcoholDays = 2
    /\ dashboard.month.beerFreeRate = 67

\* C19: with one row per day and no row after the current day, the week's
\* exercise days are at most 7 and the month's exercise days and no-alcohol
\* days at most 30, the denominators they are shown against.
C19_CountsWithinDenominators ==
    ( /\ dashboard # Blank
      /\ OneRowPerDate(rows)
      /\ \A i \in 1..Len(rows) : rows[i].date \div 2 <= clock \div 2 )
    => /\ dashboard.week.exerciseDays <= 7
       /\ dashboard.month.exerciseDays <= 30
       /\ dashboard.month.noAlcoholDays <= 30

\* ------------------------------------------------------------------------
\* The summary of the current week
\* ------------------------------------------------------------------------
\* the Monday of the week in which the dashboard is updated (day 0 is a Monday)
WeekMonday == 7

\* the dates of the rows: the Sunday before at 00:00 and 23:59, that Monday at
\* 00:00 and 23:59, and the Tuesday
WeekDates == (2 * (WeekMonday - 1))..(2 * (WeekMonday + 1))

WeekLogs ==
    UNION {[1..n -> [date : WeekDates, ex : {"Gym", "Rest Day"}, beer : {EmptyCell, 2}]] :
           n \in 0..WeekRows}

\* the dashboard is updated on any day of the week, Monday to Sunday, early or late
InitWeek ==
    /\ sheetExists = TRUE
    /\ rows \in WeekLogs
    /\ clock \in (2 * WeekMonday)..(2 * (WeekMonday + 6) + 1)
    /\ Quiet

NextWeek == MenuUpdateDashboard(1) \/ UpdateDashboard(1)

SpecWeek == InitWeek /\ [][NextWeek]_vars

RECURSIVE BeersOf(_, _)
\* the beers entered in the rows S of data
BeersOf(data, S) ==
    IF S = {} THEN 0
    ELSE LET i == CHOOSE j \in S : TRUE
         IN  (IF data[i].beer > 0 THEN data[i].beer ELSE 0) + BeersOf(data, S \ {i})

\* C14: whatever the weekday of the update, Sunday included, the week's summary
\* counts exactly the rows whose day is the Monday of that week or later: a row
\* of Monday 00:00 is counted, a row of the Sunday before at 23:59 is not.
C14_WeekStartsOnMonday ==
    dashboard # Blank =>
       LET included == {i \in 1..Len(rows) : rows[i].date \div 2 >= WeekMonday}
       IN  /\ dashboard.week.exerciseDays =
                 Cardinality({i \in included : ExerciseDay(rows[i])})
           /\ dashboard.week.totalBeers = BeersOf(rows, included)

\* updated on the Sunday: of a row of the Sunday before at 23:59 and a row of
\* Monday 00:00, both with an activity and 2 beers, only the second is counted
C14_Witness ==
    /\ dashboard # Blank
    /\ clock \div 2 = WeekMonday + 6
    /\ rows = << [date |-> 2 * WeekMonday - 1, ex |-> "Gym", beer |-> 2],
                 [date |-> 2 * WeekMonday, ex |-> "Gym", beer |-> 2] >>
    /\ dashboard.week.exerciseDays = 1
    /\ dashboard.week.totalBeers = 2

\* ------------------------------------------------------------------------
\* Today's row is appended below a recorded history
\* ------------------------------------------------------------------------
\* rows for the n days before day 0, in order, with the given columns
History(e, b) ==
    [i \in 1..Len(e) |-> [date |-> 2 * (i - 1 - Len(e)), ex |-> e[i], beer |-> b[i]]]

Histories ==
    UNION {{History(e, b) : e \in [1..n -> EXERCISE_TYPES \cup {""}], b \in [1..n -> BeerValues]} :
           n \in 0..HistoryLen}

\* day 0 begins or ends; the earlier days are recorded, day 0 is not yet
InitAppend ==
    /\ sheetExists = TRUE
    /\ rows \in Histories
    /\ clock \in {0, 1}
    /\ Quiet

\* the two daily triggers and the user during day 0
NextAppend ==
    \/ UserEdit
    \/ \E p \in Procs :
         \/ DailyAutoAddRow(p) \/ SendDailyReminder(p)
         \/ AddScan(p) \/ AddLastRow(p) \/ AddSetValue(p)
         \/ ReminderCheck(p) \/ ReminderSendOk(p) \/ ReminderSendFail(p) \/ ReminderMark(p)

SpecAppend == InitAppend /\ [][NextAppend]_vars

\* the last row of the sheet is day's and has no exercise type
LastRowIsEmptyRowOf(day) ==
    /\ rows # <<>>
    /\ rows[Len(rows)].date \div 2 = day
    /\ rows[Len(rows)].ex = ""

\* C18: the step of dailyAutoAddRow that appends today's row leaves a sheet
\* whose exercise streak is 0 and whose no-alcohol streak is one more than
\* before; and a reminder being sent while today's row is the last row and has
\* no exercise type carries an exercise streak of 0.
C18_AppendedRowZeroesExerciseStreak ==
    /\ [][\A p \in Procs :
            (pc[p] = "add_set" /\ pc'[p] # "add_set" /\ Len(rows') = Len(rows) + 1) =>
               /\ calculateExerciseStreak(rows') = 0
               /\ calculateNoAlcoholStreak(rows') = calculateNoAlcoholStreak(rows) + 1]_vars
    /\ [](\A p \in Procs :
            (pc[p] = "r_send" /\ LastRowIsEmptyRowOf(clock \div 2)) =>
               mailBody[p].exerciseStreak = 0)

\* a reminder is being sent for today's appended row, below a day with an
\* activity and a day with a beer: it carries 0, and the no-alcohol streak is 1
C18_Witness ==
    \E p \in Procs :
       /\ pc[p] = "r_send"
       /\ LastRowIsEmptyRowOf(clock \div 2)
       /\ Len(rows) >= 2
       /\ rows[Len(rows) - 1].ex = "Gym"
       /\ rows[Len(rows) - 1].beer = 1
       /\ mailBody[p] = [exerciseStreak |-> 0, noAlcoholStreak |-> 1]

\* ------------------------------------------------------------------------
\* The daily trigger under contention for the script lock
\* ------------------------------------------------------------------------
\* one day, nothing recorded yet; the spreadsheet may not have been initialized
InitLive ==
    /\ sheetExists \in BOOLEAN
    /\ rows \in {data \in Histories : Len(data) <= 1}
    /\ clock \in {0, 1}
    /\ Quiet

\* dailyAutoAddRow and sendDailyReminder are invoked again and again
NextLive ==
    \E p \in Procs :
       \/ DailyAutoAddRow(p) \/ SendDailyReminder(p)
       \/ AddScan(p) \/ AddLastRow(p) \/ AddSetValue(p)
       \/ ReminderCheck(p) \/ ReminderSendOk(p) \/ ReminderSendFail(p) \/ ReminderMark(p)

\* An execution that has begun runs to its end (Apps Script runs a started
\* function until it returns or throws), so whoever holds the lock releases it;
\* and the trigger's tryLock, which waits for the lock, gets it if it is free
\* again and again.
FairLive ==
    /\ \A p \in Procs :
          /\ WF_vars(AddScan(p)) /\ WF_vars(AddLastRow(p)) /\ WF_vars(AddSetValue(p))
          /\ WF_vars(ReminderCheck(p))
          /\ WF_vars(ReminderSendOk(p) \/ ReminderSendFail(p))
          /\ WF_vars(ReminderMark(p))
    /\ SF_vars(\E p \in Procs : TryLockOk(p, "daily"))

SpecLive == InitLive /\ [][NextLive]_vars /\ FairLive

====
